---- MODULE Spec2Model ----
(***************************************************************************)
(* A model of gophercloud's image operations (images.go): the five public  *)
(* operations ListImages, ImageById, CreateNewImage, UploadImageFile and   *)
(* DeleteImageById, each run through the re-authenticating wrapper         *)
(* (WithReauth / ResponseWithReauth), and the streaming upload pipeline    *)
(* made of the orchestrating closure of UploadImageFile, the streamFile    *)
(* goroutine, an io.Pipe and the HTTP transport reading the pipe.          *)
(*                                                                         *)
(* One caller thread performs one public operation.  The transport, the    *)
(* server, the credential holder and the file system are the environment:  *)
(* their outcomes are chosen nondeterministically.                         *)
(***************************************************************************)
EXTENDS Integers, Sequences, FiniteSets, TLC

\* ---------------------------------------------------------------- bounds
\* Longest file content at the start of the call.
MaxLen == 2
\* The size of io.Copy's buffer: a Read of the file returns that many bytes,
\* or the bytes left when they are fewer.
ChunkSize == 1
\* Most times the environment changes the file's content during the call.
MaxMutations == 1

\* Concurrent callers of the wrapper on one session.
NumCallers == 2

\* ------------------------------------------------------------- constants
Kinds == {"list", "get", "create", "upload", "delete"}
\* The wrapper runs the operation at most twice: attempts are numbered 1, 2.
\* A third index exists only so that a wrapper that retried again would be
\* observable rather than undefined.
Attempts == 1..3
\* Status codes the server may answer each kind of call with.
Statuses(k) ==
  CASE k = "create" -> {201, 401, 500}
    [] k = "upload" -> {200, 204, 401, 500}
    [] k = "delete" -> {204, 401, 500}
    [] OTHER -> {200, 401, 500}

Min(a, b) == IF a < b THEN a ELSE b

\* The content of a file of n bytes.  The code never looks at a byte's value,
\* so each byte is labelled with its position: order, loss and duplication
\* stay observable.
Content(n) == [i \in 1..n |-> i]

Take(s, n) == SubSeq(s, 1, n)
Drop(s, n) == SubSeq(s, n + 1, Len(s))

\* Callers that use one session at the same time.
Callers == 1..NumCallers

\* ----------------------------------------------------------------- errors
\* An error value: its class, the status code it carries (0 when none) and
\* the invocation of the operation that produced it (0 when none).
NoErr == [class |-> "nil", code |-> 0, attempt |-> 0]
Unset == [class |-> "unset", code |-> 0, attempt |-> 0]
\* perigee.UnexpectedResponseCodeError
UnexpectedResponseCode(c, a) == [class |-> "status", code |-> c, attempt |-> a]
\* an error of the HTTP client (connection refused, reset, ...)
TransportErr(a) == [class |-> "transport", code |-> 0, attempt |-> a]
\* The *os.PathError of os.Stat and the one of os.Open.
StatErr(a) == [class |-> "stat", code |-> 0, attempt |-> a]
OpenErr(a) == [class |-> "open", code |-> 0, attempt |-> a]
IsFileAccessErr(e) == e.class \in {"stat", "open"}
\* the error of a failed re-authentication
ReauthErr == [class |-> "reauth", code |-> 0, attempt |-> 0]
\* the error of http.Response.Location() when the header is absent
NoLocationErr == [class |-> "location", code |-> 0, attempt |-> 0]

\* -------------------------------------------------------------- requests
NoReq == [method |-> "none", base |-> <<>>, path |-> <<>>, token |-> -1,
          contentLength |-> -1, okCodes |-> {}, body |-> "none"]
NoResp == [class |-> "none", code |-> 0, hasLocation |-> FALSE, location |-> <<>>]

\* Location paths a server may answer a create with, as character sequences.
Locations ==
  { <<"/", "i", "m", "a", "g", "e", "s", "/", "a", "b", "c", "1", "2", "3">>,
    <<"/", "i", "/", "a">>, <<"/", "i", "/">>, <<"a">>, <<>> }

\* What the server or the network may answer to a request of the given kind.
Responses(k) ==
  {[class |-> "transport", code |-> 0, hasLocation |-> FALSE, location |-> <<>>]}
  \cup {[class |-> "status", code |-> c, hasLocation |-> FALSE, location |-> <<>>] :
          c \in Statuses(k)}
  \cup (IF k = "create"
        THEN {[class |-> "status", code |-> 201, hasLocation |-> TRUE, location |-> l] :
                l \in Locations}
        ELSE {})

\* A wrapper call of a concurrent caller, before it starts: its position,
\* the runs of its operation and its refreshes so far, the token each run
\* used, the error each run returned and the error the wrapper returns.
IdleCall == [pc |-> "start", runs |-> 0, refreshes |-> 0,
             tokens |-> <<>>, errs |-> <<>>, result |-> Unset]

\* The file has not been unlinked.
NotUnlinked == [attempt |-> 0, pc |-> "never"]

\* Base endpoints of the service, as character sequences.
Endpoints ==
  { <<"e", "/", "v", "1">>, <<"e", "/", "v", "2">>, <<"e", "/", "v", "1", "/">>,
    <<"v", "1">>, <<>> }

VARIABLES
  kind,         \* which public operation the caller runs
  endpoint,     \* gsp.endpoint
  pc,           \* the caller's position
  attempt,      \* invocations of the operation closure so far
  refreshes,    \* re-authentications so far
  token,        \* the session's current token (a version number)
  opErrs,       \* the error each invocation of the closure returned
  result,       \* the error the wrapper returns
  ret,          \* the error the public operation returned
  retId,        \* the id CreateNewImage returned
  reqs,         \* the request each invocation issued
  resp,         \* the response each request got
  tpc,          \* the transport's position for each request
  fileExists,   \* whether imagePath names a file
  fileData,     \* the content of the file (of its inode, once unlinked)
  unlinkedAt,   \* where the caller was when the file was unlinked
  mutations,    \* content changes made by the environment so far
  fileSize,     \* fileSize of each invocation (line 121), -1 before the stat
  inFile,       \* inFile of each invocation: "nil", "open" or "closed"
  offset,       \* the read offset of each open file
  pipeW,        \* the write end of each pipe: "none", "open", "closed"
  pipeR,        \* the read end of each pipe: "none", "open", "closed"
  pipeBuf,      \* bytes of the Write in progress the reader has not taken
  ppc,          \* each streamFile goroutine's position
  pbuf,         \* the chunk io.Copy last read
  copyErr,      \* the error io.Copy returned: "none", "nil", "read", "write"
  streamErr,    \* the slot *ppErr of each invocation: "nil", "read", "write"
  slotWrites,   \* assignments to the slot so far
  written,      \* bytes for which Write on the pipe reported success
  received,     \* bytes the transport has read from the pipe
  calls         \* the wrapper calls of concurrent callers of one session

wrapperVars == <<kind, endpoint, pc, attempt, refreshes, token, opErrs, result, ret, retId>>
netVars == <<reqs, resp, tpc>>
fsVars == <<fileExists, fileData, unlinkedAt, mutations>>
openVars == <<fileSize, inFile, offset>>
pipeVars == <<pipeW, pipeR, pipeBuf>>
prodVars == <<ppc, pbuf, copyErr, streamErr, slotWrites, written>>
vars == <<wrapperVars, netVars, fsVars, openVars, pipeVars, prodVars, received, calls>>


\* ------------------------------------------------------------------ Init
Init ==
  /\ kind \in Kinds
  /\ endpoint \in (IF kind = "list" THEN Endpoints ELSE {<<"e">>})
  /\ pc = "start"
  /\ attempt = 0
  /\ refreshes = 0
  /\ token = 0
  /\ opErrs = [a \in Attempts |-> Unset]
  /\ result = Unset
  /\ ret = Unset
  /\ retId = <<>>
  /\ reqs = [a \in Attempts |-> NoReq]
  /\ resp = [a \in Attempts |-> NoResp]
  /\ tpc = [a \in Attempts |-> "none"]
  /\ fileExists \in (IF kind = "upload" THEN BOOLEAN ELSE {FALSE})
  /\ fileData \in (IF fileExists THEN {Content(n) : n \in 0..MaxLen} ELSE {<<>>})
  /\ unlinkedAt = IF fileExists THEN NotUnlinked ELSE [attempt |-> 0, pc |-> "start"]
  /\ mutations = 0
  /\ fileSize = [a \in Attempts |-> -1]
  /\ inFile = [a \in Attempts |-> "nil"]
  /\ offset = [a \in Attempts |-> 0]
  /\ pipeW = [a \in Attempts |-> "none"]
  /\ pipeR = [a \in Attempts |-> "none"]
  /\ pipeBuf = [a \in Attempts |-> <<>>]
  /\ ppc = [a \in Attempts |-> "idle"]
  /\ pbuf = [a \in Attempts |-> <<>>]
  /\ copyErr = [a \in Attempts |-> "none"]
  /\ streamErr = [a \in Attempts |-> "nil"]
  /\ slotWrites = [a \in Attempts |-> 0]
  /\ written = [a \in Attempts |-> <<>>]
  /\ received = [a \in Attempts |-> <<>>]
  /\ calls = [c \in Callers |-> IdleCall]

\* --------------------------------------------- the public operation's end
\* strings.Split(s, "/"), as a sequence of character sequences.
RECURSIVE Split(_)
Split(s) ==
  IF \A i \in 1..Len(s) : s[i] # "/"
  THEN <<s>>
  ELSE LET i == CHOOSE j \in 1..Len(s) :
                  s[j] = "/" /\ \A k \in 1..(j - 1) : s[k] # "/"
       IN  <<Take(s, i - 1)>> \o Split(Drop(s, i))

\* A CreateNewImage that took the first element of the split path.
FirstElement(arr) == arr[1]
\* locationArr[len(locationArr)-1], line 74.
LastElement(arr) == arr[Len(arr)]

\* A public operation that dropped the wrapper's error.
PublicReturnNil(e) == NoErr
\* return err (lines 29, 45, 64, 153, 167): the wrapper's error is the
\* public operation's error.
PublicReturn(e) == e

\* The wrapper has returned error e, and response r with it: lines 63-75 of
\* CreateNewImage, and the return statements of the other operations.
PublicEnd(e, r) ==
  /\ pc' = "done"
  /\ IF kind = "create" /\ e = NoErr
     THEN IF r.hasLocation
          THEN /\ retId' = LastElement(Split(r.location))
               /\ ret' = NoErr
          ELSE /\ retId' = <<>>
               /\ ret' = NoLocationErr
     ELSE /\ ret' = PublicReturn(e)
          /\ retId' = <<>>

\* ----------------------------------------------------- the retry wrapper
\* WithReauth / ResponseWithReauth are not part of images.go; they are
\* modelled from the specification's section 4.1.

\* An authentication-class failure: the server answered "unauthorized".
IsAuthError(e) == e.class = "status" /\ e.code = 401

\* A wrapper that retried after every authentication failure, and one that
\* retried the first run after any error.
ShouldRetryAlways(n, e) == IsAuthError(e)
ShouldRetryOnAnyError(n, e) == n = 1 /\ e # NoErr
\* A wrapper that allowed itself two retries.
ShouldRetryTwice(n, e) == n <= 2 /\ IsAuthError(e)
\* Step 2 of the wrapper: only the first run's auth failure leads to a refresh.
ShouldRetry(n, e) == n = 1 /\ IsAuthError(e)

\* Where each closure begins.
FirstStep == IF kind = "upload" THEN "stat" ELSE "request"

\* The public operation calls the wrapper, which runs the closure (step 1).
Call ==
  /\ pc = "start"
  /\ attempt' = attempt + 1
  /\ pc' = FirstStep
  /\ UNCHANGED <<kind, endpoint, refreshes, token, opErrs, result, ret, retId>>
  /\ UNCHANGED <<netVars, fsVars, openVars, pipeVars, prodVars, received>>
  /\ UNCHANGED calls

\* The closure returns error e (and response r) to the wrapper: an auth
\* failure of the first run leads to the refresh (step 2), anything else is
\* what the wrapper returns (step 3, and the end of step 2).
OpReturns(e, r) ==
  /\ opErrs' = [opErrs EXCEPT ![attempt] = e]
  /\ IF ShouldRetry(attempt, e)
     THEN /\ pc' = "refresh"
          /\ UNCHANGED <<result, ret, retId>>
     ELSE /\ result' = e
          /\ PublicEnd(e, r)

\* A wrapper that ran the closure again whatever the refresh returned.
ReauthOutcomeRetry(ok) ==
  /\ token' = IF ok THEN token + 1 ELSE token
  /\ attempt' = attempt + 1
  /\ pc' = FirstStep
  /\ UNCHANGED <<result, ret, retId>>
\* Session.Refresh(): on success the token changes and the closure runs once
\* more; on failure the refresh error is what the wrapper returns.
ReauthOutcome(ok) ==
  IF ok
  THEN /\ token' = token + 1
       /\ attempt' = attempt + 1
       /\ pc' = FirstStep
       /\ UNCHANGED <<result, ret, retId>>
  ELSE /\ UNCHANGED <<token, attempt>>
       /\ result' = ReauthErr
       /\ PublicEnd(ReauthErr, NoResp)

Reauth ==
  /\ pc = "refresh"
  /\ refreshes' = refreshes + 1
  /\ \E ok \in BOOLEAN : ReauthOutcome(ok)
  /\ UNCHANGED <<kind, endpoint, opErrs>>
  /\ UNCHANGED <<netVars, fsVars, openVars, pipeVars, prodVars, received>>
  /\ UNCHANGED calls

\* ------------------------------------------------- the operation closures
\* A ListImages that looked for "v1" at the start of the endpoint.
HasPrefix(s, suf) ==
  /\ Len(s) >= Len(suf)
  /\ SubSeq(s, 1, Len(suf)) = suf
\* strings.HasSuffix on character sequences.
HasSuffix(s, suf) ==
  /\ Len(s) >= Len(suf)
  /\ SubSeq(s, Len(s) - Len(suf) + 1, Len(s)) = suf

\* A call that named no OkCodes.
OkCodesUnnamed(k) == {}
\* OkCodes of each perigee call: POST expects 201, PUT expects 204, the
\* other calls name none.
OkCodes(k) ==
  CASE k = "create" -> {201}
    [] k = "upload" -> {204}
    [] OTHER -> {}

Method(k) ==
  CASE k = "list" -> "GET"
    [] k = "get" -> "GET"
    [] k = "create" -> "POST"
    [] k = "upload" -> "PUT"
    [] k = "delete" -> "DELETE"

\* The url of each call, as the path segments appended to the endpoint.
UrlPath(k, ep) ==
  CASE k = "list" -> IF HasSuffix(ep, <<"v", "1">>)
                     THEN <<"images", "details">>
                     ELSE <<"images">>
    [] k = "get" -> <<"images", "id">>
    [] k = "create" -> <<"images">>
    [] k = "upload" -> <<"images", "id", "file">>
    [] k = "delete" -> <<"images", "id">>

\* A content length measured again when the request is built.
ContentLengthNow(a) == Len(fileData)
\* ContentLength of the PUT: the local fileSize set from the stat (line 145).
ContentLength(a) == fileSize[a]

\* A closure that used in every invocation the token of its first one.
AuthTokenOfFirstRun(a) == IF a > 1 THEN reqs[1].token ELSE token
\* gsp.context.access.AuthToken(), called inside the closure while it builds
\* the request's headers (lines 25, 40, 55, 147, 162).
AuthToken(a) == token

\* The perigee.Options and url the closure of operation k builds in
\* invocation a.
RequestOf(k, a) ==
  [method |-> Method(k), base |-> endpoint, path |-> UrlPath(k, endpoint),
   token |-> AuthToken(a),
   contentLength |-> IF k = "upload" THEN ContentLength(a) ELSE -1,
   okCodes |-> OkCodes(k),
   body |-> CASE k = "upload" -> "pipe" [] k = "create" -> "json" [] OTHER -> "none"]

\* The errors perigee may return for response r of a call with the given
\* OkCodes.  With OkCodes the error is decided by the status; without them
\* the library's default is not visible from images.go, so a status outside
\* 2xx may or may not be reported as an error.
PerigeeErrs(ok, r, a) ==
  IF r.class = "transport" THEN {TransportErr(a)}
  ELSE IF ok # {}
       THEN (IF r.code \in ok THEN {NoErr} ELSE {UnexpectedResponseCode(r.code, a)})
       ELSE (IF r.code \div 100 = 2
             THEN {NoErr}
             ELSE {NoErr, UnexpectedResponseCode(r.code, a)})

\* The closure calls perigee (lines 21, 37, 51, 141, 159); the request is on
\* the wire, carrying the token read at this moment.
IssueRequest ==
  /\ pc = "request"
  /\ reqs' = [reqs EXCEPT ![attempt] = RequestOf(kind, attempt)]
  /\ tpc' = [tpc EXCEPT ![attempt] = "active"]
  /\ pc' = "await"
  /\ UNCHANGED <<kind, endpoint, attempt, refreshes, token, opErrs, result, ret, retId>>
  /\ UNCHANGED <<resp, fsVars, openVars, pipeVars, prodVars, received>>
  /\ UNCHANGED calls

\* The transport delivers the outcome of the request; perigee turns it into
\* the closure's return value.
Respond ==
  /\ pc = "await"
  /\ tpc[attempt] = "active"
  /\ \E r \in Responses(kind) :
       /\ resp' = [resp EXCEPT ![attempt] = r]
       /\ \E e \in PerigeeErrs(reqs[attempt].okCodes, r, attempt) : OpReturns(e, r)
  /\ tpc' = [tpc EXCEPT ![attempt] = "responded"]
  /\ UNCHANGED <<kind, endpoint, attempt, refreshes, token>>
  /\ UNCHANGED <<reqs, fsVars, openVars, pipeVars, prodVars, received>>
  /\ UNCHANGED calls


\* ------------------------------------------- UploadImageFile's closure
\* A closure that went on after a failed stat.
StatIgnoringError ==
  /\ pc = "stat"
  /\ fileSize' = [fileSize EXCEPT ![attempt] = IF fileExists THEN Len(fileData) ELSE 0]
  /\ pc' = "open"
  /\ UNCHANGED <<kind, endpoint, attempt, refreshes, token, opErrs, result, ret, retId>>
  /\ UNCHANGED <<inFile, offset, netVars, fsVars, pipeVars, prodVars, received>>
  /\ UNCHANGED calls

\* os.Stat(imagePath), lines 117-121.
Stat ==
  /\ pc = "stat"
  /\ IF fileExists
     THEN /\ fileSize' = [fileSize EXCEPT ![attempt] = Len(fileData)]
          /\ pc' = "open"
          /\ UNCHANGED <<opErrs, result, ret, retId>>
     ELSE /\ OpReturns(StatErr(attempt), NoResp)
          /\ UNCHANGED fileSize
  /\ UNCHANGED <<kind, endpoint, attempt, refreshes, token>>
  /\ UNCHANGED <<inFile, offset, netVars, fsVars, pipeVars, prodVars, received>>
  /\ UNCHANGED calls

\* A closure that went on after a failed open.
OpenIgnoringError ==
  /\ pc = "open"
  /\ inFile' = [inFile EXCEPT ![attempt] = IF fileExists THEN "open" ELSE "nil"]
  /\ offset' = [offset EXCEPT ![attempt] = 0]
  /\ pc' = "stream"
  /\ UNCHANGED <<kind, endpoint, attempt, refreshes, token, opErrs, result, ret, retId>>
  /\ UNCHANGED <<fileSize, netVars, fsVars, pipeVars, prodVars, received>>
  /\ UNCHANGED calls

\* A closure that used in its second invocation the file the first one
\* opened, read as far as the first copy got.
OpenSharedHandle ==
  /\ pc = "open"
  /\ IF fileExists
     THEN /\ inFile' = [inFile EXCEPT ![attempt] = "open"]
          /\ offset' = [offset EXCEPT ![attempt] =
                          IF attempt > 1 THEN offset[attempt - 1] ELSE 0]
          /\ pc' = "stream"
          /\ UNCHANGED <<opErrs, result, ret, retId>>
     ELSE /\ OpReturns(OpenErr(attempt), NoResp)
          /\ UNCHANGED <<inFile, offset>>
  /\ UNCHANGED <<kind, endpoint, attempt, refreshes, token>>
  /\ UNCHANGED <<fileSize, netVars, fsVars, pipeVars, prodVars, received>>
  /\ UNCHANGED calls

\* os.Open(imagePath), lines 126-129.
Open ==
  /\ pc = "open"
  /\ IF fileExists
     THEN /\ inFile' = [inFile EXCEPT ![attempt] = "open"]
          /\ offset' = [offset EXCEPT ![attempt] = 0]
          /\ pc' = "stream"
          /\ UNCHANGED <<opErrs, result, ret, retId>>
     ELSE /\ OpReturns(OpenErr(attempt), NoResp)
          /\ UNCHANGED <<inFile, offset>>
  /\ UNCHANGED <<kind, endpoint, attempt, refreshes, token>>
  /\ UNCHANGED <<fileSize, netVars, fsVars, pipeVars, prodVars, received>>
  /\ UNCHANGED calls

\* A closure that closed the file itself once the copy was launched.
StartStreamerClosingFile ==
  /\ pc = "stream"
  /\ pipeW' = [pipeW EXCEPT ![attempt] = "open"]
  /\ pipeR' = [pipeR EXCEPT ![attempt] = "open"]
  /\ streamErr' = [streamErr EXCEPT ![attempt] = "nil"]
  /\ ppc' = [ppc EXCEPT ![attempt] = "read"]
  /\ inFile' = [inFile EXCEPT ![attempt] = "closed"]
  /\ pc' = "request"
  /\ UNCHANGED <<kind, endpoint, attempt, refreshes, token, opErrs, result, ret, retId>>
  /\ UNCHANGED <<pipeBuf, pbuf, copyErr, slotWrites, written>>
  /\ UNCHANGED <<netVars, fsVars, fileSize, offset, received>>
  /\ UNCHANGED calls

\* io.Pipe(), var streamErr *error and go streamFile(...), lines 133-137.
StartStreamer ==
  /\ pc = "stream"
  /\ pipeW' = [pipeW EXCEPT ![attempt] = "open"]
  /\ pipeR' = [pipeR EXCEPT ![attempt] = "open"]
  /\ streamErr' = [streamErr EXCEPT ![attempt] = "nil"]
  /\ ppc' = [ppc EXCEPT ![attempt] = "read"]
  /\ pc' = "request"
  /\ UNCHANGED <<kind, endpoint, attempt, refreshes, token, opErrs, result, ret, retId>>
  /\ UNCHANGED <<pipeBuf, pbuf, copyErr, slotWrites, written>>
  /\ UNCHANGED <<netVars, fsVars, openVars, received>>
  /\ UNCHANGED calls

\* ------------------------------------------------------------ streamFile
\* A streamFile that did not defer the close of the file.
StepAfterNoFileClose(p) ==
  CASE p = "copy" -> "setErr"
    [] p = "setErr" -> "closePipe"
    [] p = "closePipe" -> "done"
    [] p = "closeFile" -> "done"
\* A streamFile that closed the pipe before it stored the copy's outcome.
StepAfterClosingFirst(p) ==
  CASE p = "copy" -> "closePipe"
    [] p = "closePipe" -> "setErr"
    [] p = "setErr" -> "closeFile"
    [] p = "closeFile" -> "done"
\* The order of streamFile's steps once io.Copy has returned: the assignment
\* to *ppErr (lines 100-105), and on return the deferred calls, last
\* deferred first: writePipe.Close() (line 96), then readFrom.Close()
\* (line 93).
StepAfter(p) ==
  CASE p = "copy" -> "setErr"
    [] p = "setErr" -> "closePipe"
    [] p = "closePipe" -> "closeFile"
    [] p = "closeFile" -> "done"

\* A copy that stopped one byte early.
AtEOFEarly(a) == offset[a] + 1 >= Len(fileData)
\* The Read of the source finds no byte left: io.Copy ends without error.
AtEOF(a) == offset[a] >= Len(fileData)

\* io.Copy's Read of the source (line 99).  A Read of a regular file fills
\* the buffer or returns the bytes left; a Read at or past the end reports
\* EOF, which ends the copy without error; a Read of a closed file fails,
\* and any Read may fail with an I/O error.
ProducerRead(a) ==
  /\ ppc[a] = "read"
  /\ \/ /\ inFile[a] = "open"
        /\ offset[a] < Len(fileData)
        /\ LET n == Min(ChunkSize, Len(fileData) - offset[a])
           IN  /\ pbuf' = [pbuf EXCEPT ![a] = SubSeq(fileData, offset[a] + 1, offset[a] + n)]
               /\ offset' = [offset EXCEPT ![a] = offset[a] + n]
        /\ ppc' = [ppc EXCEPT ![a] = "write"]
        /\ UNCHANGED copyErr
     \/ /\ inFile[a] = "open"
        /\ AtEOF(a)
        /\ copyErr' = [copyErr EXCEPT ![a] = "nil"]
        /\ ppc' = [ppc EXCEPT ![a] = StepAfter("copy")]
        /\ UNCHANGED <<pbuf, offset>>
     \/ /\ copyErr' = [copyErr EXCEPT ![a] = "read"]
        /\ ppc' = [ppc EXCEPT ![a] = StepAfter("copy")]
        /\ UNCHANGED <<pbuf, offset>>
  /\ UNCHANGED <<wrapperVars, netVars, fsVars, fileSize, inFile, pipeVars>>
  /\ UNCHANGED <<streamErr, slotWrites, written, received>>
  /\ UNCHANGED calls

\* io.Copy's Write to the pipe (line 99): PipeWriter.Write hands the chunk to
\* the reader and blocks; on a pipe either end of which is closed it fails
\* at once.
ProducerWrite(a) ==
  /\ ppc[a] = "write"
  /\ IF pipeW[a] = "open" /\ pipeR[a] = "open"
     THEN /\ pipeBuf' = [pipeBuf EXCEPT ![a] = pbuf[a]]
          /\ ppc' = [ppc EXCEPT ![a] = "writing"]
          /\ UNCHANGED copyErr
     ELSE /\ copyErr' = [copyErr EXCEPT ![a] = "write"]
          /\ ppc' = [ppc EXCEPT ![a] = StepAfter("copy")]
          /\ UNCHANGED pipeBuf
  /\ UNCHANGED <<wrapperVars, netVars, fsVars, openVars, pipeW, pipeR>>
  /\ UNCHANGED <<pbuf, streamErr, slotWrites, written, received>>
  /\ UNCHANGED calls

\* A Write on a pipe that buffered: it returns without waiting for the reader.
ProducerWriteDoneBuffered(a) ==
  /\ ppc[a] = "writing"
  /\ written' = [written EXCEPT ![a] = written[a] \o pbuf[a]]
  /\ ppc' = [ppc EXCEPT ![a] = "read"]
  /\ pbuf' = [pbuf EXCEPT ![a] = <<>>]
  /\ UNCHANGED <<wrapperVars, netVars, fsVars, openVars, pipeVars>>
  /\ UNCHANGED <<copyErr, streamErr, slotWrites, received>>
  /\ UNCHANGED calls

\* The blocked Write returns: with success once the reader has taken every
\* byte, with io.ErrClosedPipe and the count taken so far once the read end
\* is closed.
ProducerWriteDone(a) ==
  /\ ppc[a] = "writing"
  /\ \/ /\ pipeBuf[a] = <<>>
        /\ written' = [written EXCEPT ![a] = written[a] \o pbuf[a]]
        /\ ppc' = [ppc EXCEPT ![a] = "read"]
        /\ UNCHANGED <<copyErr, pipeBuf>>
     \/ /\ pipeBuf[a] # <<>>
        /\ pipeR[a] = "closed"
        /\ written' = [written EXCEPT ![a] =
                         written[a] \o Take(pbuf[a], Len(pbuf[a]) - Len(pipeBuf[a]))]
        /\ pipeBuf' = [pipeBuf EXCEPT ![a] = <<>>]
        /\ copyErr' = [copyErr EXCEPT ![a] = "write"]
        /\ ppc' = [ppc EXCEPT ![a] = StepAfter("copy")]
  /\ pbuf' = [pbuf EXCEPT ![a] = <<>>]
  /\ UNCHANGED <<wrapperVars, netVars, fsVars, openVars, pipeW, pipeR>>
  /\ UNCHANGED <<streamErr, slotWrites, received>>
  /\ UNCHANGED calls

\* A streamFile that stored nil whatever the copy returned.
SlotValueAlwaysNil(e) == "nil"
\* The value streamFile stores in *ppErr: &err when the copy failed (line
\* 101), nil otherwise (line 105).
SlotValue(e) == IF e = "nil" THEN "nil" ELSE e

\* Lines 100-105: the outcome of the copy goes into the slot.
ProducerSetErr(a) ==
  /\ ppc[a] = "setErr"
  /\ streamErr' = [streamErr EXCEPT ![a] = SlotValue(copyErr[a])]
  /\ slotWrites' = [slotWrites EXCEPT ![a] = slotWrites[a] + 1]
  /\ ppc' = [ppc EXCEPT ![a] = StepAfter("setErr")]
  /\ UNCHANGED <<wrapperVars, netVars, fsVars, openVars, pipeVars>>
  /\ UNCHANGED <<pbuf, copyErr, written, received>>
  /\ UNCHANGED calls

\* The deferred writePipe.Close() of line 96 runs first on return.
ProducerClosePipe(a) ==
  /\ ppc[a] = "closePipe"
  /\ pipeW' = [pipeW EXCEPT ![a] = "closed"]
  /\ ppc' = [ppc EXCEPT ![a] = StepAfter("closePipe")]
  /\ UNCHANGED <<wrapperVars, netVars, fsVars, openVars, pipeR, pipeBuf>>
  /\ UNCHANGED <<pbuf, copyErr, streamErr, slotWrites, written, received>>
  /\ UNCHANGED calls

\* The deferred readFrom.Close() of line 93 runs last.
ProducerCloseFile(a) ==
  /\ ppc[a] = "closeFile"
  /\ inFile' = [inFile EXCEPT ![a] = "closed"]
  /\ ppc' = [ppc EXCEPT ![a] = StepAfter("closeFile")]
  /\ UNCHANGED <<wrapperVars, netVars, fsVars, fileSize, offset, pipeVars>>
  /\ UNCHANGED <<pbuf, copyErr, streamErr, slotWrites, written, received>>
  /\ UNCHANGED calls


\* ------------------------------------------ the transport and the body
\* While the request is being sent the transport reads the body: a Read of
\* the pipe takes some of the bytes of the Write in progress.
TransportRead(a) ==
  /\ tpc[a] = "active"
  /\ reqs[a].body = "pipe"
  /\ pipeR[a] = "open"
  /\ pipeBuf[a] # <<>>
  /\ \E n \in 1..Len(pipeBuf[a]) :
       /\ received' = [received EXCEPT ![a] = received[a] \o Take(pipeBuf[a], n)]
       /\ pipeBuf' = [pipeBuf EXCEPT ![a] = Drop(pipeBuf[a], n)]
  /\ UNCHANGED <<wrapperVars, netVars, fsVars, openVars, pipeW, pipeR, prodVars>>
  /\ UNCHANGED calls

\* The transport closes the request body: when it gives up sending, or at
\* some moment after the request is over.
TransportCloseBody(a) ==
  /\ tpc[a] \in {"active", "responded"}
  /\ reqs[a].body = "pipe"
  /\ pipeR[a] = "open"
  /\ pipeR' = [pipeR EXCEPT ![a] = "closed"]
  /\ UNCHANGED <<wrapperVars, netVars, fsVars, openVars, pipeW, pipeBuf, prodVars, received>>
  /\ UNCHANGED calls

\* ------------------------------------------------------ the file system
\* Another process unlinks the file; open handles keep the content.  Only
\* os.Stat and os.Open look at the name, so an unlink at any other moment is
\* the same to the code as one just before the next of them; the moment
\* between the open and the launch of the copy is kept apart, to tell an
\* unlink before the open from one after it.
DeleteFile ==
  /\ pc \in {"stat", "open", "stream"}
  /\ fileExists
  /\ fileExists' = FALSE
  /\ unlinkedAt' = [attempt |-> attempt, pc |-> pc]
  /\ UNCHANGED <<fileData, mutations>>
  /\ UNCHANGED <<wrapperVars, netVars, openVars, pipeVars, prodVars, received>>
  /\ UNCHANGED calls

\* Another process appends a byte to the file or truncates it by one.  Only
\* os.Stat and the Reads of the copy look at the content, so a change at any
\* other moment is the same to the code as one just before the next of them.
MutateFile ==
  /\ pc = "stat" \/ \E a \in Attempts : ppc[a] = "read"
  /\ fileExists
  /\ mutations < MaxMutations
  /\ mutations' = mutations + 1
  /\ \/ fileData' = Append(fileData, Len(fileData) + 1)
     \/ /\ fileData # <<>>
        /\ fileData' = Take(fileData, Len(fileData) - 1)
  /\ UNCHANGED <<fileExists, unlinkedAt>>
  /\ UNCHANGED <<wrapperVars, netVars, openVars, pipeVars, prodVars, received>>
  /\ UNCHANGED calls

\* ------------------------------------------------------------------ Next
Next ==
  \/ Call
  \/ Reauth
  \/ IssueRequest
  \/ Respond
  \/ Stat
  \/ Open
  \/ StartStreamer
  \/ \E a \in Attempts : ProducerRead(a)
  \/ \E a \in Attempts : ProducerWrite(a)
  \/ \E a \in Attempts : ProducerWriteDone(a)
  \/ \E a \in Attempts : ProducerSetErr(a)
  \/ \E a \in Attempts : ProducerClosePipe(a)
  \/ \E a \in Attempts : ProducerCloseFile(a)
  \/ \E a \in Attempts : TransportRead(a)
  \/ \E a \in Attempts : TransportCloseBody(a)
  \/ DeleteFile
  \/ MutateFile

Spec == Init /\ [][Next]_vars

\* The transport closes the body of a request that is over.
TransportCloseBodyWhenOver(a) == TransportCloseBody(a) /\ tpc[a] = "responded"

\* What the scheduler and the transport guarantee: a goroutine that can take
\* its next step takes it (the caller launching the copy and issuing the
\* request, streamFile at each of its steps); every request that was issued
\* ends, with a response or an error; and the transport closes the body of
\* a request that has ended.  Nothing is required of the transport's Reads.
Fairness ==
  /\ WF_vars(StartStreamer)
  /\ WF_vars(IssueRequest)
  /\ WF_vars(Respond)
  /\ \A a \in Attempts :
       /\ WF_vars(ProducerRead(a))
       /\ WF_vars(ProducerWrite(a))
       /\ WF_vars(ProducerWriteDone(a))
       /\ WF_vars(ProducerSetErr(a))
       /\ WF_vars(ProducerClosePipe(a))
       /\ WF_vars(ProducerCloseFile(a))
       /\ WF_vars(TransportCloseBodyWhenOver(a))

SpecFair == Spec /\ Fairness


\* ------------------------------------------ concurrent calls on a session
\* Several callers run the wrapper on one session at the same time.  The
\* wrapper is the one of the specification's section 4.1, with the same
\* retry rule as above; the specification's section 5 says that concurrent
\* calls are not coordinated: a caller's step waits for no other caller.
\* The operation is any of the simple closures; only its error matters.

\* The variables of the single call above, which these callers leave alone.
singleCallVars ==
  <<kind, endpoint, pc, attempt, refreshes, opErrs, result, ret, retId,
    netVars, fsVars, openVars, pipeVars, prodVars, received>>

\* What run n of an operation may return to the wrapper.
OpOutcomes(n) ==
  {NoErr, UnexpectedResponseCode(401, n), UnexpectedResponseCode(500, n),
   TransportErr(n)}

\* Caller c calls the wrapper, which runs the operation with the session's
\* current token (step 1).
ConcCall(c) ==
  /\ calls[c].pc = "start"
  /\ calls' = [calls EXCEPT ![c].pc = "run", ![c].runs = 1,
                            ![c].tokens = <<token>>]
  /\ UNCHANGED <<token, singleCallVars>>

\* The operation of caller c returns: an authentication failure of the
\* first run leads to a refresh, anything else is what the wrapper returns.
ConcOpReturns(c) ==
  /\ calls[c].pc = "run"
  /\ \E e \in OpOutcomes(calls[c].runs) :
       LET retry == ShouldRetry(calls[c].runs, e)
       IN  calls' = [calls EXCEPT ![c].errs = Append(@, e),
                                  ![c].pc = IF retry THEN "refresh" ELSE "done",
                                  ![c].result = IF retry THEN @ ELSE e]
  /\ UNCHANGED <<token, singleCallVars>>

\* Caller c starts to refresh the session's credentials (step 2); nothing
\* makes it wait for a refresh another caller is making.
ConcRefreshBegin(c) ==
  /\ calls[c].pc = "refresh"
  /\ calls' = [calls EXCEPT ![c].pc = "refreshing", ![c].refreshes = @ + 1]
  /\ UNCHANGED <<token, singleCallVars>>

\* The refresh of caller c ends: on success the session has a new token and
\* the operation runs once more with it; on failure the wrapper returns the
\* refresh error.
ConcRefreshEnd(c) ==
  /\ calls[c].pc = "refreshing"
  /\ \E ok \in BOOLEAN :
       IF ok
       THEN /\ token' = token + 1
            /\ calls' = [calls EXCEPT ![c].pc = "run", ![c].runs = @ + 1,
                                      ![c].tokens = Append(@, token + 1)]
       ELSE /\ UNCHANGED token
            /\ calls' = [calls EXCEPT ![c].pc = "done", ![c].result = ReauthErr]
  /\ UNCHANGED singleCallVars

InitConc == Init /\ kind = "get"

NextConc ==
  \/ \E c \in Callers : ConcCall(c)
  \/ \E c \in Callers : ConcOpReturns(c)
  \/ \E c \in Callers : ConcRefreshBegin(c)
  \/ \E c \in Callers : ConcRefreshEnd(c)

SpecConc == InitConc /\ [][NextConc]_vars


\* ---------------------------------------------------------------- claims
\* The first run of the closure has returned an error that is not an
\* authentication failure.
FirstFailedNonAuth ==
  /\ opErrs[1] \notin {Unset, NoErr}
  /\ ~IsAuthError(opErrs[1])

\* C1: for every operation, when the first run of the closure fails with an
\* error that is not an authentication failure, the closure has run exactly
\* once, no refresh has happened, no second request exists, and the public
\* operation has returned that very error.
C1_NonAuthErrorPassesThrough ==
  FirstFailedNonAuth =>
    /\ attempt = 1
    /\ refreshes = 0
    /\ reqs[2] = NoReq
    /\ pc = "done"
    /\ result = opErrs[1]
    /\ ret = opErrs[1]

\* DeleteImageById's request failed in the network and the caller got that
\* error.
C1_Witness ==
  /\ kind = "delete"
  /\ pc = "done"
  /\ opErrs[1] = TransportErr(1)
  /\ ret = TransportErr(1)
  /\ attempt = 1

\* The first run failed with an authentication failure and the refresh
\* succeeded (only a successful refresh changes the token).
RetriedAfterRefresh == IsAuthError(opErrs[1]) /\ token > 0

\* C2: when the first run fails with an authentication failure and the
\* refresh succeeds, the closure runs exactly twice, the second run starts
\* after the one refresh, and whatever the second run returns (success, any
\* failure, an authentication failure again) is what the wrapper returns and
\* the public operation's error, with no further refresh or run.
C2_RetryOnceAfterRefresh ==
  RetriedAfterRefresh =>
    /\ attempt = 2
    /\ refreshes = 1
    /\ token = 1
    /\ reqs[3] = NoReq
    /\ (reqs[2] # NoReq => reqs[2].token = 1)
    /\ (pc = "done") = (opErrs[2] # Unset)
    /\ (opErrs[2] # Unset =>
          /\ result = opErrs[2]
          /\ \/ ret = opErrs[2]
             \/ kind = "create" /\ opErrs[2] = NoErr)

\* An upload whose second run met an authentication failure again: that
\* failure is returned and nothing more is tried.
C2_Witness ==
  /\ kind = "upload"
  /\ pc = "done"
  /\ RetriedAfterRefresh
  /\ IsAuthError(opErrs[2])
  /\ ret = opErrs[2]
  /\ attempt = 2
  /\ refreshes = 1

\* The first run failed with an authentication failure and the refresh
\* failed.
RefreshFailed == IsAuthError(opErrs[1]) /\ refreshes >= 1 /\ token = 0

\* C3: when the first run fails with an authentication failure and the
\* refresh fails, the closure has run exactly once and the error returned to
\* the caller is the refresh error, not the closure's authentication error.
C3_RefreshErrorReturned ==
  RefreshFailed =>
    /\ attempt = 1
    /\ opErrs[2] = Unset
    /\ reqs[2] = NoReq
    /\ pc = "done"
    /\ result = ReauthErr
    /\ ret = ReauthErr
    /\ ret # opErrs[1]

C3_Witness ==
  /\ RefreshFailed
  /\ pc = "done"
  /\ ret = ReauthErr
  /\ attempt = 1

\* The state of the wrapper's machine: Initial, Retrying, Done.
Phase ==
  CASE pc = "done" -> "Done"
    [] pc # "done" /\ (pc = "refresh" \/ refreshes > 0 \/ attempt > 1) -> "Retrying"
    [] OTHER -> "Initial"

\* C4: in every execution of one wrapper call the closure runs at most twice
\* and Refresh at most once; the call moves Initial -> Retrying -> Done, never
\* backwards, and enters Retrying only from Initial, on an authentication
\* failure of the first run.
C4_BoundedRetry ==
  /\ [](attempt <= 2 /\ refreshes <= 1)
  /\ [][/\ Phase' # Phase =>
             \/ Phase = "Initial" /\ Phase' \in {"Retrying", "Done"}
             \/ Phase = "Retrying" /\ Phase' = "Done"
        /\ (Phase' = "Retrying" /\ Phase # "Retrying") =>
             /\ attempt = 1
             /\ refreshes = 0
             /\ IsAuthError(opErrs'[1])
        /\ refreshes' # refreshes => pc = "refresh" /\ attempt = 1
        /\ attempt' # attempt => attempt' = attempt + 1]_vars

\* A call that went through all three states.
C4_Witness ==
  /\ Phase = "Done"
  /\ attempt = 2
  /\ refreshes = 1
  /\ IsAuthError(opErrs[1])


\* streamFile of invocation a has returned.
Finished(a) == ppc[a] = "done"
\* io.Copy of invocation a has returned an error.
CopyFailed(a) == copyErr[a] \in {"read", "write"}

\* C5: whenever a streamFile goroutine has finished, after a copy that
\* succeeded or failed, the source file is closed, the write end of its pipe
\* is closed and its slot has been assigned exactly once, holding nil after a
\* successful copy and the copy's error otherwise; and in every step, the
\* slot of an invocation is assigned by nothing but that invocation's
\* streamFile, at its assignment of lines 100-105.
C5_ProducerReleasesAndReports ==
  /\ [](\A a \in Attempts :
          /\ slotWrites[a] <= 1
          /\ Finished(a) =>
               /\ inFile[a] = "closed"
               /\ pipeW[a] = "closed"
               /\ slotWrites[a] = 1
               /\ copyErr[a] = "nil" => streamErr[a] = "nil"
               /\ CopyFailed(a) => streamErr[a] = copyErr[a])
  /\ [][\A a \in Attempts :
          (streamErr'[a] # streamErr[a] \/ slotWrites'[a] # slotWrites[a]) =>
            /\ ppc[a] = "setErr"
            /\ ppc'[a] = "closePipe"
            /\ slotWrites'[a] = slotWrites[a] + 1]_vars

\* A producer finished after a Write on the pipe failed, and one finished
\* after a complete copy.
C5_Witness ==
  /\ \E a \in Attempts : Finished(a) /\ copyErr[a] = "write" /\ streamErr[a] = "write"
  /\ \E a \in Attempts : Finished(a) /\ copyErr[a] = "nil" /\ written[a] # <<>>

\* C6: for a source of N bytes that nobody changes during the copy, when no
\* Read and no Write fails, then by the time the sink is closed exactly the N
\* bytes of the source, in the source's order, have been written to the sink
\* and taken by its reader; and once the slot is assigned, it is non-nil if
\* and only if a Read of the source or a Write to the sink failed.
C6_CopyIsExact ==
  \A a \in Attempts :
    /\ (pipeW[a] = "closed" /\ copyErr[a] = "nil" /\ mutations = 0) =>
         /\ written[a] = fileData
         /\ received[a] = fileData
         /\ Len(written[a]) = Len(fileData)
    /\ ppc[a] \in {"closePipe", "closeFile", "done"} =>
         (streamErr[a] # "nil") = CopyFailed(a)

\* A copy of a two-byte file that ended without error, sink closed.
C6_Witness ==
  \E a \in Attempts :
    /\ pipeW[a] = "closed"
    /\ copyErr[a] = "nil"
    /\ mutations = 0
    /\ Len(fileData) >= 2
    /\ written[a] = fileData


\* C7: when the copy of the upload's last invocation has failed (a Read of
\* the source or a Write to the pipe failed) by the time UploadImageFile
\* returns, UploadImageFile returns a non-nil error, also when the PUT was
\* answered 204.
C7_CopyErrorSurfaced ==
  [][(/\ kind = "upload"
      /\ pc = "await"
      /\ pc' = "done"
      /\ CopyFailed(attempt)) => ret' # NoErr]_vars

\* Invocation a touched nothing but the name of the file.
NothingStarted(a) ==
  /\ reqs[a] = NoReq
  /\ tpc[a] = "none"
  /\ inFile[a] = "nil"
  /\ pipeW[a] = "none"
  /\ pipeR[a] = "none"
  /\ ppc[a] = "idle"

\* The claim C8 as it was stated: when the stat of an invocation fails,
\* UploadImageFile returns that error, no request was issued, no file
\* opened, no pipe created and no producer launched in the call, and the
\* closure ran exactly once with no refresh.
C8_Original ==
  \A a \in Attempts :
    opErrs[a] = StatErr(a) =>
      /\ ret = StatErr(a)
      /\ \A b \in Attempts : NothingStarted(b)
      /\ attempt = 1
      /\ refreshes = 0

\* The file was unlinked before the stat of invocation a, and that stat has
\* been made.
StatFoundNoFile(a) ==
  /\ kind = "upload"
  /\ unlinkedAt.pc # "never"
  /\ unlinkedAt.attempt < a \/ (unlinkedAt.attempt = a /\ unlinkedAt.pc = "stat")
  /\ attempt > a \/ (attempt = a /\ pc # "stat")

\* C8, amended: when the stat of an invocation fails because the file is
\* missing, that invocation issues no request, opens no file, creates no
\* pipe and launches no producer; its error is not an authentication
\* failure, so no refresh and no invocation follows it and UploadImageFile
\* returns it; and when it is the first invocation, the closure has run
\* exactly once and nothing at all was started.
C8_StatFailureFailsFast ==
  \A a \in Attempts :
    (opErrs[a] = StatErr(a) \/ StatFoundNoFile(a)) =>
      /\ opErrs[a] = StatErr(a)
      /\ ~IsAuthError(opErrs[a])
      /\ fileSize[a] = -1
      /\ NothingStarted(a)
      /\ attempt = a
      /\ refreshes = a - 1
      /\ pc = "done"
      /\ result = StatErr(a)
      /\ ret = StatErr(a)
      /\ a = 1 => \A b \in Attempts : NothingStarted(b)

\* The file is missing from the start and the upload has returned.
C8_Witness ==
  /\ kind = "upload"
  /\ unlinkedAt.pc = "start"
  /\ pc = "done"
  /\ ret = StatErr(1)
  /\ attempt = 1

\* C9: every PUT of UploadImageFile declares as content length the fileSize
\* of its own invocation, which is set only by that invocation's stat, to
\* the length the file has at that moment, and is never measured again.
C9_DeclaredLengthIsStatSize ==
  /\ [](\A a \in Attempts :
          reqs[a].method = "PUT" =>
            /\ fileSize[a] >= 0
            /\ reqs[a].contentLength = fileSize[a])
  /\ [][\A a \in Attempts :
          /\ fileSize'[a] # fileSize[a] =>
               /\ pc = "stat"
               /\ attempt = a
               /\ fileSize'[a] = Len(fileData)
          /\ (reqs[a] # NoReq /\ kind = "upload") => reqs'[a] = reqs[a]]_vars

\* The file changed between the stat and the end of the copy: the copy ended
\* without error, having streamed a number of bytes other than the declared
\* length.
C9_Witness ==
  \E a \in Attempts :
    /\ reqs[a].method = "PUT"
    /\ pipeW[a] = "closed"
    /\ copyErr[a] = "nil"
    /\ mutations > 0
    /\ Len(written[a]) # reqs[a].contentLength

\* The claim C10 as it was stated: when the file is unlinked after the stat
\* of an invocation succeeded and before its copy started, UploadImageFile
\* fails with a file-access error and no request is in flight when it
\* returns.
C10_Original ==
  (kind = "upload" /\ pc = "done" /\ unlinkedAt.pc \in {"open", "stream"}) =>
    /\ IsFileAccessErr(ret)
    /\ \A b \in Attempts : tpc[b] # "active"

\* C10, amended: when the file is unlinked after the stat of an invocation
\* succeeded and before that invocation opens it, the open fails,
\* UploadImageFile returns the open's file-access error, and the invocation
\* has issued no PUT, created no pipe and launched no producer: no request
\* is in flight when the call returns.
C10_UnlinkedBeforeOpen ==
  unlinkedAt.pc = "open" =>
    LET a == unlinkedAt.attempt
    IN  /\ attempt = a
        /\ fileSize[a] >= 0
        /\ NothingStarted(a)
        /\ \/ pc = "open"
           \/ /\ pc = "done"
              /\ opErrs[a] = OpenErr(a)
              /\ ret = OpenErr(a)
              /\ IsFileAccessErr(ret)
              /\ \A b \in Attempts : tpc[b] # "active"

\* The file vanished between the stat and the open of the retry, and the
\* upload returned the open's error.
C10_Witness ==
  /\ unlinkedAt = [attempt |-> 2, pc |-> "open"]
  /\ pc = "done"
  /\ ret = OpenErr(2)

\* C11: when UploadImageFile has returned, its error is nil only if the last
\* invocation issued its PUT and that PUT was answered with status 204; and
\* when the last PUT was answered with any other status, the error is not
\* nil.
C11_NilOnlyOn204 ==
  (kind = "upload" /\ pc = "done") =>
    /\ ret = NoErr =>
         /\ reqs[attempt].method = "PUT"
         /\ resp[attempt].class = "status"
         /\ resp[attempt].code = 204
    /\ (resp[attempt].class = "status" /\ resp[attempt].code # 204) => ret # NoErr

\* An upload whose last PUT was answered 200, a success status other than
\* 204, and which returned perigee's error for it.
C11_Witness ==
  /\ kind = "upload"
  /\ pc = "done"
  /\ attempt = 2
  /\ resp[2].class = "status"
  /\ resp[2].code = 200
  /\ ret = UnexpectedResponseCode(200, 2)

\* C12: whenever an invocation of any operation's closure issues its
\* request, the request carries the token the session holds at that moment;
\* so the request of a second invocation, which follows a successful
\* refresh, carries the refreshed token, not the one the first request
\* carried.
C12_RequestCarriesCurrentToken ==
  /\ [][\A a \in Attempts :
          reqs'[a] # reqs[a] =>
            /\ a = attempt
            /\ reqs'[a].token = token
            /\ reqs'[a].method = Method(kind)]_vars
  /\ [](reqs[2] # NoReq =>
          /\ refreshes = 1
          /\ reqs[2].token = token
          /\ reqs[2].token # reqs[1].token)

\* A list whose second request went out with the refreshed token.
C12_Witness ==
  /\ kind = "list"
  /\ IsAuthError(opErrs[1])
  /\ reqs[1].token = 0
  /\ reqs[2].method = "GET"
  /\ reqs[2].token = 1
  /\ token = 1

\* CreateNewImage has returned after its last POST was answered 201.
CreatedAndReturned ==
  /\ kind = "create"
  /\ pc = "done"
  /\ resp[attempt].class = "status"
  /\ resp[attempt].code = 201

\* C13: when CreateNewImage has returned after a 201, then with a Location
\* header the error is nil and the id is the part of the Location's path
\* after its last '/' (the whole path when it has none): abc123 for
\* /images/abc123, the empty string for a path that ends with '/'; and
\* without a Location header the error is the header-parsing error and the
\* id is empty.
C13_IdIsLastPathElement ==
  CreatedAndReturned =>
    LET l == resp[attempt].location
    IN  IF resp[attempt].hasLocation
        THEN /\ ret = NoErr
             /\ \A i \in 1..Len(retId) : retId[i] # "/"
             /\ HasSuffix(l, retId)
             /\ Len(l) > Len(retId) => l[Len(l) - Len(retId)] = "/"
             /\ l = <<"/", "i", "m", "a", "g", "e", "s", "/", "a", "b", "c", "1", "2", "3">>
                  => retId = <<"a", "b", "c", "1", "2", "3">>
             /\ (l # <<>> /\ l[Len(l)] = "/") => retId = <<>>
        ELSE /\ ret = NoLocationErr
             /\ retId = <<>>

\* A create answered 201 with Location /images/abc123 returned abc123.
C13_Witness ==
  /\ CreatedAndReturned
  /\ resp[attempt].hasLocation
  /\ Len(resp[attempt].location) = 14
  /\ retId = <<"a", "b", "c", "1", "2", "3">>
  /\ ret = NoErr

\* The last two characters of the endpoint are 'v' and '1'.
EndsWithV1(ep) == Len(ep) >= 2 /\ ep[Len(ep) - 1] = "v" /\ ep[Len(ep)] = "1"

\* C14: every request of ListImages, the first and the one of the retry, is
\* a GET to the endpoint followed by /images/details when the endpoint ends
\* with "v1", and by /images otherwise.
C14_ListUrl ==
  \A a \in Attempts :
    (kind = "list" /\ reqs[a] # NoReq) =>
      /\ reqs[a].method = "GET"
      /\ reqs[a].base = endpoint
      /\ reqs[a].path = IF EndsWithV1(endpoint)
                        THEN <<"images", "details">>
                        ELSE <<"images">>

\* A list against an endpoint ending in /v1 whose first request and retry
\* both went to /images/details.
C14_Witness ==
  /\ kind = "list"
  /\ endpoint = <<"e", "/", "v", "1">>
  /\ reqs[1].path = <<"images", "details">>
  /\ reqs[2].path = <<"images", "details">>
  /\ reqs[2].token = 1

\* The claim C15 as it was stated: in no state has the slot been assigned
\* while the write end of the pipe is still open.
C15_Original ==
  \A a \in Attempts : slotWrites[a] > 0 => pipeW[a] = "closed"

\* C15, amended: streamFile closes the write end of its pipe after its last
\* successful Write and after it has assigned the slot: the write end is
\* never closed while the slot is unassigned, no Write succeeds once the
\* slot is assigned, and the slot is assigned while the write end is open.
C15_SlotAssignedBeforeClose ==
  /\ [](\A a \in Attempts : pipeW[a] = "closed" => slotWrites[a] = 1)
  /\ [][\A a \in Attempts :
          /\ (pipeW[a] = "open" /\ pipeW'[a] = "closed") =>
               /\ slotWrites[a] = 1
               /\ written'[a] = written[a]
          /\ written'[a] # written[a] =>
               /\ slotWrites'[a] = 0
               /\ pipeW'[a] = "open"
          /\ slotWrites'[a] # slotWrites[a] => pipeW'[a] = "open"]_vars

\* After a Write that succeeded the slot is assigned and the write end of
\* the pipe is still open.
C15_Witness ==
  \E a \in Attempts :
    /\ ppc[a] = "closePipe"
    /\ written[a] # <<>>
    /\ slotWrites[a] = 1
    /\ pipeW[a] = "open"

\* C16: the file an invocation opened is closed by nothing but that
\* invocation's streamFile, in its deferred close, once: the file is open
\* at that step and stays closed after it, and the caller's position does
\* not change in it; while streamFile copies, its file is open; when it has
\* finished, its file is closed; and a file is open or closed only in an
\* invocation that has launched its streamFile or is about to, being
\* between the open and the launch.
C16_ProducerOwnsTheClose ==
  /\ [](\A a \in Attempts :
          /\ ppc[a] \in {"read", "write", "writing", "setErr", "closePipe", "closeFile"}
               => inFile[a] = "open"
          /\ ppc[a] = "done" => inFile[a] = "closed"
          /\ inFile[a] # "nil" =>
               \/ ppc[a] # "idle"
               \/ pc = "stream" /\ attempt = a)
  /\ [][\A a \in Attempts :
          /\ inFile[a] = "closed" => inFile'[a] = "closed"
          /\ ppc[a] = "done" => ppc'[a] = "done"
          /\ (inFile'[a] = "closed" /\ inFile[a] # "closed") =>
               /\ inFile[a] = "open"
               /\ ppc[a] = "closeFile"
               /\ ppc'[a] = "done"
               /\ pc' = pc
          /\ (pc = "stream" /\ attempt = a /\ pc' # pc) =>
               /\ pc' = "request"
               /\ ppc'[a] = "read"
               /\ inFile'[a] = "open"]_vars

\* The upload has returned after two invocations; each opened the file and
\* each invocation's streamFile has closed its own.
C16_Witness ==
  /\ pc = "done"
  /\ attempt = 2
  /\ ppc[1] = "done"
  /\ ppc[2] = "done"
  /\ inFile[1] = "closed"
  /\ inFile[2] = "closed"

\* C17: the pipe holds no byte beyond those of the one Write in progress:
\* bytes wait in it only while streamFile is blocked in a Write, they are
\* at most one chunk, and the bytes handed to the pipe are those the
\* transport has taken followed by those that wait; a Write returns only
\* when the transport has taken all its bytes or the read end is closed,
\* and every byte a Write reported as written has been taken by the
\* transport.
C17_Backpressure ==
  /\ [](\A a \in Attempts :
          /\ Len(pipeBuf[a]) <= ChunkSize
          /\ pipeBuf[a] # <<>> => ppc[a] = "writing"
          /\ received[a] \o pipeBuf[a] =
               written[a] \o (IF ppc[a] = "writing" THEN pbuf[a] ELSE <<>>)
          /\ Len(written[a]) <= Len(received[a]))
  /\ [][\A a \in Attempts :
          /\ (ppc[a] = "writing" /\ ppc'[a] # "writing") =>
               pipeBuf[a] = <<>> \/ pipeR[a] = "closed"
          /\ written'[a] # written[a] =>
               /\ ppc[a] = "writing"
               /\ written'[a] = received[a]]_vars

\* streamFile is blocked in the Write of its second chunk: the first has been
\* taken by the transport, the second waits in the pipe.
C17_Witness ==
  \E a \in Attempts :
    /\ ppc[a] = "writing"
    /\ tpc[a] = "active"
    /\ written[a] # <<>>
    /\ received[a] = written[a]
    /\ pipeBuf[a] # <<>>

\* C18: with several callers running the wrapper on one session, under
\* every interleaving each call refreshes at most once, only after an
\* authentication failure of its first run, and runs its operation at most
\* twice; the session's token has changed at most once per refresh made.
\* (That two calls refresh at the same time is the witness.)
C18_EachCallBounded ==
  /\ \A c \in Callers :
       /\ calls[c].refreshes <= 1
       /\ calls[c].runs <= 2
       /\ Len(calls[c].errs) <= calls[c].runs
       /\ calls[c].refreshes = 1 => IsAuthError(calls[c].errs[1])
       /\ calls[c].runs = 2 => calls[c].refreshes = 1
  /\ token <= Cardinality({c \in Callers : calls[c].refreshes = 1})

\* Two calls whose first runs met an authentication failure are refreshing
\* at the same time: two refreshes, one of each call.
C18_Witness ==
  /\ calls[1].pc = "refreshing"
  /\ calls[2].pc = "refreshing"
  /\ calls[1].refreshes = 1
  /\ calls[2].refreshes = 1
  /\ IsAuthError(calls[1].errs[1])
  /\ IsAuthError(calls[2].errs[1])

\* Every streamFile that was launched has finished, with its file and the
\* write end of its pipe closed, and no file is open.
AllReleased ==
  \A a \in Attempts :
    /\ ppc[a] # "idle" =>
         (ppc[a] = "done" /\ inFile[a] = "closed" /\ pipeW[a] = "closed")
    /\ inFile[a] # "open"

\* C19: when every request ends and the transport closes the body of a
\* request that has ended, and every goroutine that can step does, then from
\* some moment on every streamFile that was launched has finished, with its
\* file and the write end of its pipe closed, and no file is open: no
\* streamFile stays blocked in a Write and no file stays open for ever, also
\* when the PUT ended before the body was read.
C19_ProducersTerminate == <>[]AllReleased

\* The first PUT was answered 401 before the transport had read any byte of
\* a body of two bytes; the retry is under way, and the first streamFile has
\* finished after its Write failed on the closed pipe.
C19_Witness ==
  /\ IsAuthError(opErrs[1])
  /\ attempt = 2
  /\ fileSize[1] = 2
  /\ received[1] = <<>>
  /\ ppc[1] = "done"
  /\ copyErr[1] = "write"
  /\ inFile[1] = "closed"
  /\ pipeW[1] = "closed"

\* What belongs to invocation a of the upload closure: its stat's result,
\* its file, its pipe, its slot and its streamFile.
OwnState(a) ==
  <<fileSize[a], inFile[a], offset[a], pipeW[a], pipeR[a], pipeBuf[a],
    ppc[a], pbuf[a], copyErr[a], streamErr[a], slotWrites[a], written[a]>>

\* C20: an invocation of the upload closure that has issued its PUT has made
\* its own stat, opened the file itself and has its own pipe, slot and
\* streamFile; the bytes its streamFile wrote and those its PUT's body
\* delivered are the file's bytes from the first on, in order, whatever an
\* earlier invocation read; and a step of the streamFile of one invocation
\* changes nothing that belongs to another invocation.
C20_InvocationsAreSeparate ==
  /\ [](\A a \in Attempts :
          /\ reqs[a].method = "PUT" =>
               /\ fileSize[a] >= 0
               /\ inFile[a] # "nil"
               /\ pipeW[a] # "none"
               /\ pipeR[a] # "none"
               /\ ppc[a] # "idle"
          /\ \A i \in 1..Len(written[a]) : written[a][i] = i
          /\ \A i \in 1..Len(received[a]) : received[a][i] = i
          /\ Len(written[a]) <= offset[a]
          /\ pbuf[a] # <<>> => pbuf[a][1] = Len(written[a]) + 1)
  /\ [][\A a, b \in Attempts :
          (a # b /\ ppc'[a] # ppc[a] /\ ppc[a] # "idle") =>
            /\ OwnState(b)' = OwnState(b)
            /\ received'[b] = received[b]
            /\ reqs'[b] = reqs[b]]_vars

\* The retry is in progress and its body has begun with the file's first
\* byte, while the streamFile of the first invocation, which had got
\* further, is still blocked in a Write on the first pipe.
C20_Witness ==
  /\ attempt = 2
  /\ ppc[1] = "writing"
  /\ offset[1] = 2
  /\ ppc[2] = "writing"
  /\ offset[2] = 1
  /\ pipeBuf[2] = <<1>>
  /\ pipeBuf[1] = <<2>>

====
